---- MODULE Spec2Model ----
(***************************************************************************)
(* A model of src/main.py: the Apify actor that plans the listing pages of *)
(* a news tag, crawls them with a BeautifulSoupCrawler, and for every      *)
(* article page extracts title and content, asks the OpenAI client for a   *)
(* summary, pushes one record and charges one "article_summary" event.     *)
(*                                                                         *)
(* The asyncio event loop is one thread: an action is the code a coroutine *)
(* runs between two suspension points.  The crawl engine (crawlee) is the  *)
(* environment: it keeps the request queue, deduplicates by URL, retries a *)
(* request whose handler raised and stops at max_requests_per_crawl.       *)
(***************************************************************************)
EXTENDS Integers, Sequences, FiniteSets, TLC

\* ---------------------------------------------------------------- bounds
\* Largest maxArticles of the actor input explored by the crawl.
MaxInput == 2
\* Planner inputs explored by the planning specification: -MaxNeg .. MaxTarget.
MaxNeg == 50
MaxTarget == 75
\* Page sizes explored by the planning specification: 1 .. MaxPageSize.
MaxPageSize == 25
\* Story links a listing page can show (article URLs are 1 .. MaxLinks).
MaxLinks == 2
\* Retries the engine gives a request whose handler raised.
MaxRetries == 1
\* Failures (summarizer, push_data, charge, enqueue_links) injected per run.
MaxFaults == 1
\* Handler invocations the engine keeps in flight at once.
MaxConcurrency == 2

\* ------------------------------------------------------------- constants
ARTICLES_PER_PAGE == 24
base_url == "https://www.wired.com/tag/programming"

\* Python's None, and the values an optional text can take.
Null == "<None>"
\* select_one() found no element.
NoEl == <<"<no element>">>

\* --------------------------------------------------------- pure functions
\* str(n) for n >= 0, as the f-string formats the page number.
Digit(d) == CASE d = 0 -> "0" [] d = 1 -> "1" [] d = 2 -> "2" [] d = 3 -> "3"
              [] d = 4 -> "4" [] d = 5 -> "5" [] d = 6 -> "6" [] d = 7 -> "7"
              [] d = 8 -> "8" [] d = 9 -> "9"

RECURSIVE ToStr(_)
ToStr(n) == IF n < 10 THEN Digit(n) ELSE ToStr(n \div 10) \o Digit(n % 10)

\* Ceil with the quotient rounded down, as `//` would.
FloorDiv(a, b) == a \div b

\* math.ceil(a / b) for b > 0 (exact while |a| < 2^53, where the float
\* quotient rounds to the same side of every integer as the true quotient).
Ceil(a, b) == -((-a) \div b)

\* total_pages = ceil(max_articles / ARTICLES_PER_PAGE)
TotalPages(n, size) == Ceil(n, size)

\* range(1, total_pages + 1): empty when total_pages <= 0.
PageRange(pages) == IF pages >= 1 THEN 1 .. pages ELSE {}

\* PageUrl without the special case of the first page.
PageUrlAlwaysQuery(base, page) == base \o "/?page=" \o ToStr(page)

\* base_url if page == 1 else f"{base_url}/?page={page}"
PageUrl(base, page) == IF page = 1 THEN base ELSE base \o "/?page=" \o ToStr(page)

\* The list comprehension that builds start_urls.
StartUrls(base, pages) ==
    [i \in PageRange(pages) |-> PageUrl(base, i)]

\* MaxRequests with one request to spare.
MaxRequestsPlusOne(n, pages) == n + pages + 1

\* max_requests_per_crawl = max_articles + total_pages
MaxRequests(n, pages) == n + pages

\* ------------------------------------------------------------------ state
VARIABLES
    max_articles,   \* actor_input.get("maxArticles", ARTICLES_PER_PAGE)
    page_size,      \* the page size the plan divides by (ARTICLES_PER_PAGE in main)
    phase,          \* "start" | "crawling" | "finished" | "exited"
    total_pages,    \* ceil(max_articles / page size)
    start_urls,     \* the seed URLs handed to crawler.run
    budget,         \* max_requests_per_crawl of the crawler
    site,           \* what the crawled site serves: the link counts of its listing
                    \* pages and the title and content elements of its articles
    pushMode,       \* "immediate": push_data writes the dataset when called;
                    \* "deferred": the engine writes it when the handler returned
    listSt,         \* per seed: "pending" | "running" | "handled" | "failed"
    listTry,        \* per seed: handler invocations that raised
    artSt,          \* per article URL: "new" | "pending" | "running" | "handled" | "failed"
    artTry,         \* per article URL: handler invocations that raised
    inv,            \* per article URL: the locals of its running invocation
    blocked,        \* the article whose synchronous OpenAI call holds the event loop, or 0
    emitted,        \* per article URL: records in the dataset
    charged,        \* "article_summary" events charged
    started,        \* requests the engine has started (counted against the budget)
    faults,         \* failures injected so far
    last,           \* what the article invocation that ended in the last step did
    abortPc         \* on_aborting: "idle" | "sleeping" | "done"

vars == <<max_articles, page_size, site, phase, total_pages, start_urls, budget, pushMode,
          listSt, listTry, artSt, artTry, inv, blocked, emitted, charged, started,
          faults, last, abortPc>>

planVars == <<max_articles, page_size, site, pushMode>>
crawlVars == <<listSt, listTry, artSt, artTry, inv, blocked, emitted, charged,
               started, faults>>

Articles == DOMAIN artSt
Seeds == DOMAIN start_urls

NoInv == [pc |-> "none"]

\* A step that ends no article invocation.
EndsNone == last' = NoInv

\* ---------------------------------------------------------- page content
\* The text nodes under the title element and under the content element of
\* a fetched article page (NoEl: the selector matched nothing).
TitleEls == {NoEl, <<"Title">>}
ContentEls == {NoEl, <<>>, <<" ">>, <<" Body ">>}

\* str.strip() on the text nodes the pages carry.
Strip(s) == CASE s = " " -> "" [] s = " Body " -> "Body" [] OTHER -> s

\* Tag.get_text(strip=True): the stripped, non-empty text nodes, joined by "".
RECURSIVE GetText(_)
GetText(nodes) ==
    IF nodes = <<>> THEN ""
    ELSE LET t == Strip(Head(nodes))
         IN  (IF t = "" THEN "" ELSE t) \o GetText(Tail(nodes))

\* el.get_text(strip=True) if el else None
Extract(el) == IF el = NoEl THEN Null ELSE GetText(el)

\* Python truthiness of an optional text: None and "" are falsy.
Truthy(x) == x # Null /\ x # ""

\* ShouldSummarize testing `content is not None` instead.
SummarizeIfNotNone(content) == content # Null

\* `if content` of the conditional expression that calls the summarizer.
ShouldSummarize(content) == Truthy(content)

\* ShouldCharge testing `content is not None` instead.
ChargeIfNotNone(content) == content # Null

\* `if content:` before Actor.charge.
ShouldCharge(content) == Truthy(content)

\* The f-string prompt: None is formatted as "None".
Prompt(content) ==
    "Summarize in 3 sentences: " \o (IF content = Null THEN "None" ELSE content)

\* summary.output_text if summary else None
SummaryText(response) == IF response # Null THEN response ELSE Null

\* The dict handed to push_data.
Data(u, title, content, response) ==
    [title |-> title, content |-> content, url |-> u, summary |-> SummaryText(response)]

\* ----------------------------------------------------------------- engine
Running == {u \in Articles : artSt[u] = "running"}
RunningSeeds == {p \in Seeds : listSt[p] = "running"}
InFlight == Cardinality(Running) + Cardinality(RunningSeeds)

\* Requests the engine is done with (handled, or failed for good).
Finished(st) == st \in {"handled", "failed"}
HandledCount ==
    Cardinality({u \in Articles : Finished(artSt[u])})
    + Cardinality({p \in Seeds : Finished(listSt[p])})

\* The event loop runs coroutines only while no synchronous call holds it.
LoopFree == blocked = 0

\* The engine starts a request it has not counted yet only within the budget.
MayStart(tries) == tries > 0 \/ started < budget

\* The engine takes article requests in queue order.
NextArticle(u) ==
    /\ artSt[u] = "pending"
    /\ \A v \in Articles : v < u => artSt[v] # "pending"

\* A request whose handler raised is retried, up to MaxRetries times.
AfterRaise(tries) == IF tries < MaxRetries THEN "pending" ELSE "failed"

\* enqueue_links: the links not seen before become ARTICLE requests.
EnqueueLinks(st, links) ==
    [u \in Articles |-> IF u \in links /\ st[u] = "new" THEN "pending" ELSE st[u]]

\* What an ended invocation leaves in `last`.
Ended(u, l, outcome) ==
    [url |-> u, title |-> l.title, content |-> l.content, sumCalls |-> l.sumCalls,
     sumFailed |-> l.sumFailed, pushCalls |-> l.pushCalls, chargeCalls |-> l.chargeCalls,
     rec |-> l.rec, outcome |-> outcome]

NoRec == [title |-> Null, content |-> Null, url |-> 0, summary |-> Null]

\* ------------------------------------------------------------------- main
\* main, lines 44-57 and 112: the plan, the crawler and its seeds.
MainPlan ==
    /\ phase = "start"
    /\ LET pages == TotalPages(max_articles, page_size)
           urls  == StartUrls(base_url, pages)
       IN  /\ total_pages' = pages
           /\ start_urls' = urls
           /\ budget' = MaxRequests(max_articles, pages)
           /\ listSt' = [p \in DOMAIN urls |-> "pending"]
           /\ listTry' = [p \in DOMAIN urls |-> 0]
    /\ phase' = "crawling"
    /\ EndsNone
    /\ UNCHANGED <<planVars, artSt, artTry, inv, blocked, emitted, charged, started,
                   faults, abortPc>>

\* The default handler up to its await: enqueue_links is called.
ListingBegin(p) ==
    /\ phase = "crawling" /\ LoopFree
    /\ listSt[p] = "pending"
    /\ InFlight < MaxConcurrency
    /\ MayStart(listTry[p])
    /\ listSt' = [listSt EXCEPT ![p] = "running"]
    /\ started' = IF listTry[p] = 0 THEN started + 1 ELSE started
    /\ EndsNone
    /\ UNCHANGED <<planVars, phase, total_pages, start_urls, budget, listTry, artSt,
                   artTry, inv, blocked, emitted, charged, faults, abortPc>>

\* enqueue_links returns: the page showed the story links 1 .. n.
ListingReturn(p, n) ==
    /\ phase = "crawling" /\ LoopFree
    /\ listSt[p] = "running"
    /\ artSt' = EnqueueLinks(artSt, 1 .. n)
    /\ listSt' = [listSt EXCEPT ![p] = "handled"]
    /\ EndsNone
    /\ UNCHANGED <<planVars, phase, total_pages, start_urls, budget, listTry, artTry,
                   inv, blocked, emitted, charged, started, faults, abortPc>>

\* enqueue_links raises: nothing is enqueued, the engine retries the page.
ListingFail(p) ==
    /\ phase = "crawling" /\ LoopFree
    /\ listSt[p] = "running"
    /\ faults < MaxFaults
    /\ faults' = faults + 1
    /\ listSt' = [listSt EXCEPT ![p] = AfterRaise(listTry[p])]
    /\ listTry' = [listTry EXCEPT ![p] = @ + 1]
    /\ EndsNone
    /\ UNCHANGED <<planVars, phase, total_pages, start_urls, budget, artSt, artTry,
                   inv, blocked, emitted, charged, started, abortPc>>

\* -------------------------------------------------------- article handler
\* The handler's locals once title and content are extracted.
Locals(title, content) ==
    [pc |-> "extracted", title |-> title, content |-> content,
     prompt |-> Prompt(content), response |-> Null, sumCalls |-> 0,
     sumFailed |-> FALSE, pushCalls |-> 0, chargeCalls |-> 0, rec |-> NoRec]

\* CallPush handing the record to push_data twice.
CallPushTwice(u, l) ==
    [l EXCEPT !.pc = "pushing",
              !.rec = Data(u, l.title, l.content, l.response),
              !.pushCalls = @ + 2]

\* Lines 99-106: the record is assembled and push_data is called.
CallPush(u, l) ==
    [l EXCEPT !.pc = "pushing",
              !.rec = Data(u, l.title, l.content, l.response),
              !.pushCalls = @ + 1]

\* The handler raised (l.pc names the call that raised): the engine retries the request or gives it up.
Raised(u, l) ==
    /\ artSt' = [artSt EXCEPT ![u] = AfterRaise(artTry[u])]
    /\ artTry' = [artTry EXCEPT ![u] = @ + 1]
    /\ inv' = [inv EXCEPT ![u] = NoInv]
    /\ last' = Ended(u, l, "raised in " \o l.pc)

\* The handler returned: the engine marks the request handled and, when it
\* defers push_data, writes the handler's records to the dataset now.
Returned(u, l, sink) ==
    /\ artSt' = [artSt EXCEPT ![u] = "handled"]
    /\ inv' = [inv EXCEPT ![u] = NoInv]
    /\ last' = Ended(u, l, "returned")
    /\ emitted' = IF pushMode = "deferred"
                  THEN [sink EXCEPT ![u] = @ + l.pushCalls]
                  ELSE sink

\* Lines 75-97: extraction, the prompt, and either the synchronous
\* client.responses.create call (the loop is held until it returns) or,
\* with falsy content, straight on to push_data.
ArticleBegin(u, titleEl, contentEl) ==
    /\ phase = "crawling" /\ LoopFree
    /\ NextArticle(u)
    /\ InFlight < MaxConcurrency
    /\ MayStart(artTry[u])
    /\ artSt' = [artSt EXCEPT ![u] = "running"]
    /\ started' = IF artTry[u] = 0 THEN started + 1 ELSE started
    /\ LET l == Locals(Extract(titleEl), Extract(contentEl))
       IN  IF ShouldSummarize(l.content)
           THEN /\ inv' = [inv EXCEPT ![u] = [l EXCEPT !.pc = "summarizing",
                                                       !.sumCalls = @ + 1]]
                /\ blocked' = u
           ELSE /\ inv' = [inv EXCEPT ![u] = CallPush(u, l)]
                /\ blocked' = blocked
    /\ EndsNone
    /\ UNCHANGED <<planVars, phase, total_pages, start_urls, budget, listSt, listTry,
                   artTry, emitted, charged, faults, abortPc>>

\* client.responses.create returns a response; the handler goes on to push_data.
SummarizeReturn(u) ==
    /\ phase = "crawling" /\ blocked = u
    /\ inv[u].pc = "summarizing"
    /\ inv' = [inv EXCEPT ![u] = CallPush(u, [inv[u] EXCEPT !.response = "A summary."])]
    /\ blocked' = 0
    /\ EndsNone
    /\ UNCHANGED <<planVars, phase, total_pages, start_urls, budget, listSt, listTry,
                   artSt, artTry, emitted, charged, started, faults, abortPc>>

\* SummarizeFail with the exception caught: the handler goes on to push_data
\* with no summary.
SummarizeFailCaught(u) ==
    /\ phase = "crawling" /\ blocked = u
    /\ inv[u].pc = "summarizing"
    /\ faults < MaxFaults
    /\ faults' = faults + 1
    /\ blocked' = 0
    /\ inv' = [inv EXCEPT ![u] = CallPush(u, [inv[u] EXCEPT !.sumFailed = TRUE])]
    /\ EndsNone
    /\ UNCHANGED <<planVars, phase, total_pages, start_urls, budget, listSt, listTry,
                   artSt, artTry, emitted, charged, started, abortPc>>

\* client.responses.create raises: nothing catches it, the handler raises.
SummarizeFail(u) ==
    /\ phase = "crawling" /\ blocked = u
    /\ inv[u].pc = "summarizing"
    /\ faults < MaxFaults
    /\ faults' = faults + 1
    /\ blocked' = 0
    /\ Raised(u, [inv[u] EXCEPT !.sumFailed = TRUE])
    /\ UNCHANGED <<planVars, phase, total_pages, start_urls, budget, listSt, listTry,
                   emitted, charged, started, abortPc>>

\* push_data returns; lines 108-109: charge if content, else the handler returns.
PushReturn(u) ==
    /\ phase = "crawling" /\ LoopFree
    /\ artSt[u] = "running" /\ inv[u].pc = "pushing"
    /\ LET sink == IF pushMode = "immediate"
                   THEN [emitted EXCEPT ![u] = @ + 1] ELSE emitted
       IN  IF ShouldCharge(inv[u].content)
           THEN /\ inv' = [inv EXCEPT ![u] = [@ EXCEPT !.pc = "charging",
                                                       !.chargeCalls = @ + 1]]
                /\ emitted' = sink
                /\ UNCHANGED artSt
                /\ EndsNone
           ELSE Returned(u, inv[u], sink)
    /\ UNCHANGED <<planVars, phase, total_pages, start_urls, budget, listSt, listTry,
                   artTry, blocked, charged, started, faults, abortPc>>

\* push_data raises.
PushFail(u) ==
    /\ phase = "crawling" /\ LoopFree
    /\ artSt[u] = "running" /\ inv[u].pc = "pushing"
    /\ faults < MaxFaults
    /\ faults' = faults + 1
    /\ Raised(u, inv[u])
    /\ UNCHANGED <<planVars, phase, total_pages, start_urls, budget, listSt, listTry,
                   blocked, emitted, charged, started, abortPc>>

\* Actor.charge returns: the event is charged and the handler returns.
ChargeReturn(u) ==
    /\ phase = "crawling" /\ LoopFree
    /\ artSt[u] = "running" /\ inv[u].pc = "charging"
    /\ charged' = charged + 1
    /\ Returned(u, inv[u], emitted)
    /\ UNCHANGED <<planVars, phase, total_pages, start_urls, budget, listSt, listTry,
                   artTry, blocked, started, faults, abortPc>>

\* Actor.charge raises: the handler raises after push_data was awaited.
ChargeFail(u) ==
    /\ phase = "crawling" /\ LoopFree
    /\ artSt[u] = "running" /\ inv[u].pc = "charging"
    /\ faults < MaxFaults
    /\ faults' = faults + 1
    /\ Raised(u, inv[u])
    /\ UNCHANGED <<planVars, phase, total_pages, start_urls, budget, listSt, listTry,
                   blocked, emitted, charged, started, abortPc>>

\* ------------------------------------------------------ end of the run
\* A pending request the engine may still start.
Startable ==
    \/ \E p \in Seeds : listSt[p] = "pending" /\ MayStart(listTry[p])
    \/ \E u \in Articles : artSt[u] = "pending" /\ MayStart(artTry[u])

\* crawler.run returns (queue empty or budget reached) and main leaves the Actor.
CrawlFinish ==
    /\ phase = "crawling" /\ LoopFree
    /\ InFlight = 0
    /\ ~Startable
    /\ phase' = "finished"
    /\ EndsNone
    /\ UNCHANGED <<planVars, total_pages, start_urls, budget, crawlVars, abortPc>>

\* Event.ABORTING is delivered: on_aborting starts and sleeps one second.
AbortSignal ==
    /\ phase = "crawling" /\ LoopFree
    /\ abortPc = "idle"
    /\ abortPc' = "sleeping"
    /\ EndsNone
    /\ UNCHANGED <<planVars, phase, total_pages, start_urls, budget, crawlVars>>

\* OnAbortingExit without the call of Actor.exit().
OnAbortingReturn ==
    /\ phase = "crawling" /\ LoopFree
    /\ abortPc = "sleeping"
    /\ abortPc' = "done"
    /\ EndsNone
    /\ UNCHANGED <<planVars, phase, total_pages, start_urls, budget, crawlVars>>

\* The sleep is over: on_aborting calls Actor.exit(), which ends the process.
OnAbortingExit ==
    /\ phase = "crawling" /\ LoopFree
    /\ abortPc = "sleeping"
    /\ abortPc' = "done"
    /\ phase' = "exited"
    /\ EndsNone
    /\ UNCHANGED <<planVars, total_pages, start_urls, budget, crawlVars>>

\* ---------------------------------------------------------- specifications
\* What every run starts from, before main has planned anything.
Fresh(urls) ==
    /\ phase = "start"
    /\ total_pages = 0 /\ start_urls = <<>> /\ budget = 0
    /\ listSt = <<>> /\ listTry = <<>>
    /\ artSt = [u \in 1 .. urls |-> "new"]
    /\ artTry = [u \in 1 .. urls |-> 0]
    /\ inv = [u \in 1 .. urls |-> NoInv]
    /\ blocked = 0
    /\ emitted = [u \in 1 .. urls |-> 0]
    /\ charged = 0 /\ started = 0
    /\ last = NoInv
    /\ abortPc = "idle"

\* The maxArticles values of the runs explored (each plans one listing page).
Inputs == 1 .. MaxInput

\* Runs over one listing page: maxArticles from the input, the page size
\* fixed by main.
SmallInit ==
    /\ max_articles \in Inputs
    /\ page_size = ARTICLES_PER_PAGE
    /\ site = [links |-> 0 .. MaxLinks, titles |-> TitleEls, contents |-> ContentEls]
    /\ pushMode \in {"immediate", "deferred"}
    /\ faults = 0
    /\ Fresh(MaxLinks)

Next ==
    \/ MainPlan
    \/ \E p \in Seeds : ListingBegin(p)
    \/ \E p \in Seeds, n \in site.links : ListingReturn(p, n)
    \/ \E p \in Seeds : ListingFail(p)
    \/ \E u \in Articles, t \in site.titles, c \in site.contents : ArticleBegin(u, t, c)
    \/ \E u \in Articles : SummarizeReturn(u)
    \/ \E u \in Articles : SummarizeFail(u)
    \/ \E u \in Articles : PushReturn(u)
    \/ \E u \in Articles : PushFail(u)
    \/ \E u \in Articles : ChargeReturn(u)
    \/ \E u \in Articles : ChargeFail(u)
    \/ CrawlFinish
    \/ AbortSignal
    \/ OnAbortingExit

\* maxArticles one past a page plans two listing pages.
LargeInput == ARTICLES_PER_PAGE + 1

\* Runs over two listing pages, which may show the same stories; every
\* article of the site has a title.
PagesInit ==
    /\ max_articles = LargeInput
    /\ page_size = ARTICLES_PER_PAGE
    /\ site = [links |-> 0 .. MaxLinks, titles |-> {<<"Title">>}, contents |-> ContentEls]
    /\ pushMode \in {"immediate", "deferred"}
    /\ faults = 0
    /\ Fresh(MaxLinks)

Init == SmallInit \/ PagesInit

Spec == Init /\ [][Next]_vars

\* The event loop runs a ready coroutine: the sleep of on_aborting ends, and
\* the HTTP call of the summarizer answers or times out.
FairSpec ==
    /\ SmallInit /\ [][Next]_vars
    /\ WF_vars(OnAbortingExit)
    /\ WF_vars(\E u \in Articles : SummarizeReturn(u))

\* A run over two listing pages that reaches the request budget: a site whose
\* listing pages show one more story than that and whose articles all have
\* a title and a body, with an engine that defers push_data.
LargeInit ==
    /\ max_articles = LargeInput
    /\ page_size = ARTICLES_PER_PAGE
    /\ site = [links |-> {LargeInput + 1}, titles |-> {<<"Title">>},
               contents |-> {<<" Body ">>}]
    /\ pushMode = "deferred"
    /\ faults = 0
    /\ Fresh(LargeInput + 1)

SpecLarge == LargeInit /\ [][Next]_vars

\* The planner alone, over target counts and page sizes beyond main's.
PlanInit ==
    /\ max_articles \in (0 - MaxNeg) .. MaxTarget
    /\ page_size \in 1 .. MaxPageSize
    /\ site = [links |-> {0}, titles |-> TitleEls, contents |-> ContentEls]
    /\ pushMode = "immediate"
    /\ faults = 0
    /\ Fresh(0)

PlanNext == MainPlan

SpecPlan == PlanInit /\ [][PlanNext]_vars

\* ------------------------------------------------------------ properties
Planned == phase # "start"

\* k is ceil(n / size): the least integer whose multiple of size reaches n.
IsCeil(k, n, size) == k * size >= n /\ (k - 1) * size < n

\* C1: for every targetItemCount > 0 and pageSize > 0 the plan has
\* pageCount = ceil(targetItemCount / pageSize) seed URLs, the first the bare
\* base URL, the i-th (i >= 2) the base URL followed by "/?page=" and i, all
\* pairwise distinct.
C1_SeedPlan ==
    (Planned /\ max_articles > 0) =>
        /\ IsCeil(total_pages, max_articles, page_size)
        /\ Len(start_urls) = total_pages
        /\ start_urls[1] = base_url
        /\ \A i \in 2 .. Len(start_urls) :
              start_urls[i] = base_url \o "/?page=" \o ToStr(i)
        /\ \A i, j \in 1 .. Len(start_urls) : i # j => start_urls[i] # start_urls[j]

\* A plan of more than nine pages: 25 items on pages of 2.
C1_Witness ==
    /\ Planned /\ max_articles = 25 /\ page_size = 2
    /\ Len(start_urls) = 13
    /\ start_urls[1] = "https://www.wired.com/tag/programming"
    /\ start_urls[2] = "https://www.wired.com/tag/programming/?page=2"
    /\ start_urls[13] = "https://www.wired.com/tag/programming/?page=13"

\* C7 as stated: for every targetItemCount <= 0 with page size 24 the plan
\* has pageCount = 0 and no seed URLs.
C7_ZeroPages ==
    (Planned /\ max_articles <= 0 /\ page_size = ARTICLES_PER_PAGE) =>
        total_pages = 0 /\ start_urls = <<>>

\* C7 amended: for every targetItemCount <= 0 with page size 24 planning
\* succeeds with no seed URLs and pageCount = ceil(targetItemCount / 24),
\* which is 0 for -24 < targetItemCount <= 0 and negative from -24 down.
C7_NoSeeds ==
    /\ phase = "start" => ENABLED MainPlan
    /\ (Planned /\ max_articles <= 0 /\ page_size = ARTICLES_PER_PAGE) =>
          /\ start_urls = <<>>
          /\ IsCeil(total_pages, max_articles, ARTICLES_PER_PAGE)
          /\ total_pages <= 0
          /\ (total_pages = 0 <=> max_articles > 0 - ARTICLES_PER_PAGE)

\* A plan for -24 items: one page less than none.
C7_Witness ==
    /\ Planned /\ page_size = ARTICLES_PER_PAGE
    /\ max_articles = 0 - ARTICLES_PER_PAGE
    /\ total_pages = -1 /\ start_urls = <<>>

\* An article invocation ended in the last step.
SomeEnded == last # NoInv

\* C2 as stated: in every article-handler invocation "article_summary" is
\* charged if and only if the extracted content is non-null, and then once,
\* an empty text included.
C2_ChargedIffNonNull ==
    SomeEnded =>
        /\ last.chargeCalls <= 1
        /\ (last.chargeCalls = 1 <=> last.content # Null)

\* C2 amended: in every article-handler invocation Actor.charge is called at
\* most once, and it is called if and only if the extracted content is
\* neither null nor the empty text and neither the summarizer call nor
\* push_data raised.
C2_ChargedIffTruthy ==
    SomeEnded =>
        /\ last.chargeCalls <= 1
        /\ (last.chargeCalls = 1 <=>
              /\ last.content # Null /\ last.content # ""
              /\ last.outcome \in {"returned", "raised in charging"})

\* An invocation on empty content returned uncharged after an earlier one
\* was charged.
C2_Witness ==
    /\ SomeEnded /\ last.content = "" /\ last.outcome = "returned"
    /\ last.chargeCalls = 0
    /\ charged = 1

\* C3 as stated: the summarizer is called once when the extracted content is
\* non-null and not at all when it is null; with null content a record with
\* content null and summary null is still handed to push_data and nothing is
\* charged.
C3_SummarizedIffNonNull ==
    SomeEnded =>
        /\ last.content # Null => last.sumCalls = 1
        /\ last.content = Null =>
              /\ last.sumCalls = 0 /\ last.pushCalls = 1 /\ last.chargeCalls = 0
              /\ last.rec.content = Null /\ last.rec.summary = Null

\* C3 amended: the summarizer is called once when the extracted content is
\* neither null nor the empty text, and not at all when it is null or empty;
\* in those two cases a record with that content and summary null is still
\* handed to push_data, once, and nothing is charged.
C3_SummarizedIffTruthy ==
    SomeEnded =>
        /\ (last.content # Null /\ last.content # "") => last.sumCalls = 1
        /\ (last.content = Null \/ last.content = "") =>
              /\ last.sumCalls = 0 /\ last.pushCalls = 1 /\ last.chargeCalls = 0
              /\ last.rec.content = last.content /\ last.rec.summary = Null
              /\ last.rec.url = last.url /\ last.rec.title = last.title

\* A page with a title and no content element was handled.
C3_Witness ==
    /\ SomeEnded /\ last.content = Null /\ last.title = "Title"
    /\ last.outcome = "returned" /\ last.pushCalls = 1
    /\ emitted[last.url] = 1 /\ charged = 0

\* C4 as stated: when the summarizer call fails the handler still hands a
\* record with summary null to push_data and still charges once.
C4_FailureStillEmits ==
    (SomeEnded /\ last.sumFailed) =>
        /\ last.pushCalls = 1 /\ last.rec.summary = Null
        /\ last.chargeCalls = 1

\* C4 amended: when the summarizer call fails the exception leaves the
\* handler: that invocation calls neither push_data nor Actor.charge, so it
\* emits no record and charges nothing, and the engine retries the request
\* or gives it up.
C4_FailurePropagates ==
    (SomeEnded /\ last.sumFailed) =>
        /\ last.outcome = "raised in summarizing"
        /\ last.content # Null /\ last.content # "" /\ last.sumCalls = 1
        /\ last.pushCalls = 0 /\ last.chargeCalls = 0 /\ last.rec = NoRec
        /\ artSt[last.url] \in {"pending", "failed"}

\* The summarizer failed on the only invocation so far: nothing in the
\* dataset, nothing charged.
C4_Witness ==
    /\ SomeEnded /\ last.sumFailed
    /\ emitted[last.url] = 0 /\ charged = 0
    /\ artSt[last.url] = "pending" /\ artTry[last.url] = 1

\* Article URLs a listing handler has enqueued.
Enqueued == {u \in Articles : artSt[u] # "new"}

\* Handler invocations the engine has made for article u.
Invocations(u) == artTry[u] + (IF artSt[u] \in {"running", "handled"} THEN 1 ELSE 0)

\* C5 as stated: every article URL a listing handler enqueued has at most one
\* record at any time and exactly one when the crawl has run to its end.
C5_ExactlyOnce ==
    /\ \A u \in Enqueued : emitted[u] <= 1
    /\ phase = "finished" => \A u \in Enqueued : emitted[u] = 1

\* C5 amended: the engine handles every enqueued article URL at most once,
\* however many listing pages show it; a URL it has handled has a record,
\* exactly one when the engine defers push_data; a URL has no more records
\* than handler invocations (a second one only where push_data writes at once
\* and an invocation raised after it), and none while no invocation for it
\* has reached push_data, which the end of the run (request budget, abort,
\* retries used up) can make final.
C5_AtMostOncePerInvocation ==
    \A u \in Articles :
        /\ emitted[u] <= Invocations(u)
        /\ artSt[u] = "handled" => emitted[u] >= 1
        /\ pushMode = "deferred" => emitted[u] = (IF artSt[u] = "handled" THEN 1 ELSE 0)
        /\ artSt[u] \in {"new", "pending"} /\ artTry[u] = 0 => emitted[u] = 0
        /\ Invocations(u) <= MaxRetries + 1

\* Both listing pages were handled, story 1 was handled in one invocation and
\* has one record, and the crawl ran to its end.
C5_Witness ==
    /\ Len(listSt) = 2 /\ listSt[1] = "handled" /\ listSt[2] = "handled"
    /\ artSt[1] = "handled" /\ emitted[1] = 1 /\ artTry[1] = 0
    /\ phase = "finished"

\* C6: the budget handed to the engine is targetItemCount + pageCount with
\* pageCount = ceil(targetItemCount / 24); the requests the engine has
\* started, and so those it has handled, never exceed it; and once that many
\* are handled the crawl can end, as a normal end of the run.
C6_RequestBudget ==
    Planned =>
        /\ \E k \in 0 .. max_articles :
              /\ IsCeil(k, max_articles, ARTICLES_PER_PAGE)
              /\ budget = max_articles + k
        /\ started <= budget
        /\ HandledCount <= budget
        /\ (phase = "crawling" /\ HandledCount = budget) => ENABLED CrawlFinish
        /\ phase = "finished" => InFlight = 0 /\ ~Startable

\* The crawl ended on its budget with a request still queued.
C6_Witness ==
    /\ phase = "finished" /\ HandledCount = budget
    /\ \E u \in Articles : artSt[u] = "pending"

\* A step an in-flight invocation other than u can take.
OthersCanStep(u) ==
    /\ \A v \in Running \ {u} :
          \/ inv[v].pc = "pushing" /\ ENABLED PushReturn(v)
          \/ inv[v].pc = "charging" /\ ENABLED ChargeReturn(v)
    /\ \A p \in RunningSeeds : ENABLED ListingReturn(p, 0)

\* C8: while an article invocation waits for its summarization call, every
\* other in-flight invocation can still take its next step.
C8_SummarizeDoesNotStall ==
    \A u \in Running : inv[u].pc = "summarizing" => OthersCanStep(u)

RECURSIVE SumTo(_, _)
SumTo(f, n) == IF n = 0 THEN 0 ELSE f[n] + SumTo(f, n - 1)

\* Records in the dataset.
Records == SumTo(emitted, Len(emitted))

\* C10: in a run with maxArticles > 0 neither the records emitted nor the
\* "article_summary" events charged ever exceed maxArticles.
C10_AtMostMaxArticles ==
    max_articles > 0 => Records <= max_articles /\ charged <= max_articles

\* A new request is started in this step.
StartsRequest ==
    \/ \E u \in Articles : artSt[u] # "running" /\ artSt'[u] = "running"
    \/ \E p \in DOMAIN listSt : listSt[p] # "running" /\ listSt'[p] = "running"

Over == phase \in {"finished", "exited"}

\* C9 as stated: once the abort signal is received no new request is started.
C9_NoNewWorkAfterAbort ==
    [][abortPc = "sleeping" => ~StartsRequest]_vars

\* C9 amended: once the abort signal is received, on_aborting sleeps (the
\* crawl goes on meanwhile and may start new requests) and then calls
\* Actor.exit(): the run eventually ends; once it has ended no request is
\* started, no handler takes a step and nothing is charged; and no record is
\* ever taken out of the dataset.
C9_AbortEndsRun ==
    /\ (abortPc = "sleeping") ~> Over
    /\ [][Over => UNCHANGED <<phase, crawlVars>>]_vars
    /\ [][\A u \in DOMAIN emitted : emitted'[u] >= emitted[u]]_vars

\* The run was ended by Actor.exit() with a record in the dataset and an
\* invocation abandoned in flight.
C9_Witness ==
    /\ phase = "exited" /\ abortPc = "done"
    /\ Records >= 1 /\ InFlight >= 1

====
